---- MODULE Spec2Model ----
\* Model of lib/Sema/TypeCheckInvertible.cpp: the conformance check of a
\* nominal type against an invertible protocol (Copyable, Escapable).
\* One action per public entry point; each action runs the whole of
\* checkInvertibleConformanceCommon on an input it draws, and records the
\* diagnostics it emits, in emission order.
EXTENDS Integers, Sequences, FiniteSets, TLC

\* Largest number of stored properties / enum elements of a nominal.
MaxMembers == 2

VARIABLES
  pc,               \* "idle" before the check, "done" after it returned
  nominalDecl,      \* the nominal under check (dc->getSelfNominalTypeDecl())
  conformance,      \* the ProtocolConformance under check
  IP,               \* the InvertibleProtocolKind of the invocation
  MoveOnlyClasses,  \* ctx.LangOpts.hasFeature(Feature::MoveOnlyClasses)
  diags,            \* the diagnostics emitted, in order
  visited,          \* the members the visitor's callback was invoked on, in order
  canAddInverse,    \* the local of that name (FALSE while it is not computed)
  returnedAtClass   \* the check left through the class return of line 154

vars == <<pc, nominalDecl, conformance, IP, MoveOnlyClasses, diags, visited,
          canAddInverse, returnedAtClass>>

\* ---------------------------------------------------------------- inputs

InvertibleProtocolKind == {"Copyable", "Escapable"}

NominalKind == {"Struct", "Enum", "Class"}

\* What the queries of tryEmitContainmentFixits find out about the
\* nonconforming type: an archetype of a generic parameter declared in the
\* same module, an archetype of another origin, a nominal with a source
\* location, a nominal without one, or none of these.
TypeOrigin ==
  {"ArchetypeOfLocalParam", "ArchetypeOther", "NominalWithLoc", "NominalNoLoc", "None"}

\* The type of one unit of storage, as the three queries of check() see it.
StorageType ==
  [hasError : BOOLEAN, isNoncopyable : BOOLEAN, isEscapable : BOOLEAN]

\* An enum element without associated values has no argument type; it is
\* given one fixed value here so that it does not multiply the inputs.
NoPayloadType ==
  [hasError |-> FALSE, isNoncopyable |-> FALSE, isEscapable |-> TRUE]

\* A stored property (hasAssociatedValues is TRUE and unused) or an enum
\* element.
Member(kind) ==
  { [hasAssociatedValues |-> TRUE, type |-> t] : t \in StorageType }
    \cup (IF kind = "Enum"
            THEN { [hasAssociatedValues |-> FALSE, type |-> NoPayloadType] }
            ELSE {})

\* The members in declaration order: getStoredProperties() of a struct or
\* class; for an enum the elements of getAllCases(), case by case.
MemberSeqs(kind) ==
  UNION { [1..n -> Member(kind)] : n \in 0..MaxMembers }

\* The inheritance clause: empty, or holding the inverses of inheritedInverses
\* (and possibly other entries).
InheritanceClauses ==
  { [empty |-> TRUE, inverses |-> {}] }
    \cup { [empty |-> FALSE, inverses |-> s] : s \in SUBSET InvertibleProtocolKind }

NominalDecls ==
  UNION { [kind : {k}, members : MemberSeqs(k), hasDeinit : BOOLEAN,
           inherited : InheritanceClauses,
           hasMoveOnlyAttr : BOOLEAN, hasNonEscapableAttr : BOOLEAN]
          : k \in NominalKind }

\* The conformance: whether it is a NormalProtocolConformance and, for one
\* that is, whether getConditionalRequirements() is empty (line 138 asks a
\* normal conformance only; the field is FALSE where it is not asked).
Conformances ==
  { [isNormal |-> TRUE, conditionalRequirementsEmpty |-> e] : e \in BOOLEAN }
    \cup { [isNormal |-> FALSE, conditionalRequirementsEmpty |-> FALSE] }

\* The values of Feature::MoveOnlyClasses: line 142 asks for it for a class
\* only (the feature is recorded FALSE where it is not asked).
FeatureValues(nominal) ==
  IF nominal.kind = "Class" THEN BOOLEAN ELSE {FALSE}

\* The origins of the nonconforming type: tryEmitContainmentFixits asks for
\* them only once a member has failed ("None" stands where it is not asked).
OriginValues(asked) ==
  IF asked THEN TypeOrigin ELSE {"None"}

\* ---------------------------------------------------------- diagnostics

\* One emitted diagnostic: its id, where it is anchored, the storage member
\* being checked when it is emitted (0: none), the isEnum argument, and the
\* fix-it attached to it.
Diag(id, at, member, isEnum, fixIt) ==
  [id |-> id, at |-> at, member |-> member, isEnum |-> isEnum, fixIt |-> fixIt]

NoFixIt == [how |-> "none", loc |-> "none", text |-> ""]

getKnownProtocolKind(ip) ==
  CASE ip = "Copyable" -> "KnownProtocolKind::Copyable"
    [] ip = "Escapable" -> "KnownProtocolKind::Escapable"

getProtocolName(kp) ==
  CASE kp = "KnownProtocolKind::Copyable" -> "Copyable"
    [] kp = "KnownProtocolKind::Escapable" -> "Escapable"

\* A fix-it that forgets the "~" of the inverse.
addConformanceFixIt_noTilde(nominal, proto, inverse) ==
  IF nominal.inherited.empty
    THEN [how |-> "fixItInsert", loc |-> "getBraces().Start",
          text |-> ": " \o getProtocolName(proto)]
    ELSE [how |-> "fixItInsertAfter", loc |-> "getInherited().getEndLoc()",
          text |-> ", " \o getProtocolName(proto)]

addConformanceFixIt(nominal, proto, inverse) ==
  IF nominal.inherited.empty
    THEN [how |-> "fixItInsert", loc |-> "getBraces().Start",
          text |-> ": " \o (IF inverse THEN "~" ELSE "") \o getProtocolName(proto)]
    ELSE [how |-> "fixItInsertAfter", loc |-> "getInherited().getEndLoc()",
          text |-> ", " \o (IF inverse THEN "~" ELSE "") \o getProtocolName(proto)]

emitAdviceToApplyInverseAfter(ip, canAdd, nominal) ==
  IF canAdd
    THEN << Diag("add_inverse", "nominal", 0, FALSE,
                 addConformanceFixIt(nominal, getKnownProtocolKind(ip), TRUE)) >>
    ELSE << >>

tryEmitContainmentFixits(enclosingNom, canAdd, origin, ip) ==
  emitAdviceToApplyInverseAfter(ip, canAdd, enclosingNom)
    \o (CASE origin = "ArchetypeOfLocalParam" ->
               << Diag("note_inverse_preventing_conformance", "genericParam",
                       0, FALSE, NoFixIt) >>
          [] origin = "ArchetypeOther" -> << >>
          [] origin = "NominalWithLoc" ->
               << Diag("note_inverse_preventing_conformance_explicit",
                       "typeNominal", 0, FALSE, NoFixIt) >>
          [] OTHER -> << >>)

\* ------------------------------------------------------- storage checking

\* A check() that does not ignore invalid storage.
ignoresInvalidStorage_never(type) == FALSE

\* check(), line 185: invalid storage is ignored.
ignoresInvalidStorage(type) == type.hasError

\* A check() whose Escapable case mirrors the polarity of the Copyable one.
storageLacksIP_mirrored(type, ip) ==
  CASE ip = "Copyable" -> type.isNoncopyable
    [] ip = "Escapable" -> type.isEscapable

\* check(), lines 189-198: the switch falls through to the diagnostic when
\* the storage does not conform to IP.
storageLacksIP(type, ip) ==
  CASE ip = "Copyable" -> type.isNoncopyable
    [] ip = "Escapable" -> ~type.isEscapable

\* A check() that diagnoses the member but returns false after it.
LacksMatchingStorage_check_noStop(Nominal, i, type, isEnum, ip, CanAddInverse, origin) ==
  IF type.hasError
       \/ (ip = "Copyable" /\ ~type.isNoncopyable)
       \/ (ip = "Escapable" /\ type.isEscapable)
    THEN [stop |-> FALSE, diags |-> << >>]
    ELSE [stop |-> FALSE,
          diags |->
            LET emitted ==
                  << Diag("inverse_type_member_in_conforming_type", "storage",
                          i, isEnum, NoFixIt) >>
                    \o tryEmitContainmentFixits(Nominal, CanAddInverse, origin, ip)
            IN [k \in 1..Len(emitted) |-> [emitted[k] EXCEPT !.member = i]]]

\* LacksMatchingStorage::check on member i: the value it returns and the
\* diagnostics it emits.
LacksMatchingStorage_check(Nominal, i, type, isEnum, ip, CanAddInverse, origin) ==
  IF ignoresInvalidStorage(type) \/ ~storageLacksIP(type, ip)
    THEN [stop |-> FALSE, diags |-> << >>]
    ELSE [stop |-> TRUE,
          diags |->
            LET emitted ==
                  << Diag("inverse_type_member_in_conforming_type", "storage",
                          i, isEnum, NoFixIt) >>
                    \o tryEmitContainmentFixits(Nominal, CanAddInverse, origin, ip)
            IN [k \in 1..Len(emitted) |-> [emitted[k] EXCEPT !.member = i]]]

\* The two callbacks of LacksMatchingStorage: a stored property is checked
\* with isEnum false, an enum associated value with isEnum true.
LacksMatchingStorage_call(Nominal, i, ip, CanAddInverse, origin) ==
  LacksMatchingStorage_check(Nominal, i, Nominal.members[i].type,
                             Nominal.kind = "Enum", ip, CanAddInverse, origin)

\* A visit() that does not pass over the elements without associated values.
visitsMember_all(nominal, i) == TRUE

\* StorageVisitor::visit, line 257: enum elements without associated values
\* are passed over; every stored property is visited.
visitsMember(nominal, i) ==
  nominal.kind = "Enum" => nominal.members[i].hasAssociatedValues

\* StorageVisitor::visit from member i on: the members the callback was
\* invoked on, the diagnostics emitted, and the value returned.
RECURSIVE visitFrom(_, _, _, _, _)
visitFrom(nominal, i, ip, CanAddInverse, origin) ==
  IF i > Len(nominal.members)
    THEN [visited |-> << >>, diags |-> << >>, result |-> FALSE]
    ELSE IF ~visitsMember(nominal, i)
      THEN visitFrom(nominal, i + 1, ip, CanAddInverse, origin)
      ELSE LET r == LacksMatchingStorage_call(nominal, i, ip, CanAddInverse, origin)
           IN IF r.stop
                THEN [visited |-> << i >>, diags |-> r.diags, result |-> TRUE]
                ELSE LET rest == visitFrom(nominal, i + 1, ip, CanAddInverse, origin)
                     IN [visited |-> << i >> \o rest.visited,
                         diags |-> r.diags \o rest.diags,
                         result |-> rest.result]

StorageVisitor_visit(nominal, ip, CanAddInverse, origin) ==
  IF nominal.kind \in {"Struct", "Class", "Enum"}
    THEN visitFrom(nominal, 1, ip, CanAddInverse, origin)
    ELSE [visited |-> << >>, diags |-> << >>, result |-> FALSE]

\* ----------------------------------------------------- conformance checking

\* Lines 124-134: the inverses of the inheritance clause, plus those of the
\* deprecated attributes.
inversesOf(nominal) ==
  nominal.inherited.inverses
    \cup (IF nominal.hasMoveOnlyAttr THEN {"Copyable"} ELSE {})
    \cup (IF nominal.hasNonEscapableAttr THEN {"Escapable"} ELSE {})

hasExplicitInverse(nominal, ip) == ip \in inversesOf(nominal)

\* Lines 136-139.
hasUnconditionalConformance(conf) ==
  conf.isNormal /\ conf.conditionalRequirementsEmpty

\* A contradiction check that leaves every class out, whatever the feature.
checksInverseButAlsoConforms_noClass(nominal, feature) ==
  nominal.kind # "Class"

\* Lines 141-142: where the contradiction between ~KP and KP is looked for.
checksInverseButAlsoConforms(nominal, feature) ==
  nominal.kind # "Class" \/ feature

\* Lines 141-150.
contradictionDiags(nominal, conf, ip, feature) ==
  IF checksInverseButAlsoConforms(nominal, feature)
       /\ hasExplicitInverse(nominal, ip) /\ hasUnconditionalConformance(conf)
    THEN << Diag("inverse_but_also_conforms", "conformance", 0, FALSE, NoFixIt) >>
    ELSE << >>

\* A check without the return for classes.
returnsAtClass_never(nominal) == FALSE

\* Line 153: all classes can store noncopyable/nonescaping values.
returnsAtClass(nominal) == nominal.kind = "Class"

\* A canAddInverse that forgets the unconditional conformance.
computeCanAddInverse_inverseOnly(explicitInverse, unconditional) ==
  ~explicitInverse

\* Line 156.
computeCanAddInverse(explicitInverse, unconditional) ==
  ~explicitInverse /\ ~unconditional

\* A deinit rule applied to both protocols.
deinitRuleApplies_always(ip) == TRUE

\* Line 159: a deinit prevents conformance to Copyable only.
deinitRuleApplies(ip) == ip = "Copyable"

\* Lines 158-164.
deinitDiags(nominal, ip, canAdd) ==
  IF deinitRuleApplies(ip) /\ nominal.hasDeinit
    THEN << Diag("copyable_illegal_deinit", "deinit", 0, FALSE, NoFixIt) >>
           \o emitAdviceToApplyInverseAfter(ip, canAdd, nominal)
    ELSE << >>

\* A check in which a deinit diagnostic ends the check before the storage
\* is walked.
checkInvertibleConformanceCommon_deinitEnds(nominal, conf, ip, feature, origin) ==
  LET contradiction == contradictionDiags(nominal, conf, ip, feature)
  IN IF returnsAtClass(nominal)
       THEN [diags |-> contradiction, visited |-> << >>, stopped |-> FALSE,
             canAddInverse |-> FALSE, returnedAtClass |-> TRUE]
       ELSE LET canAdd == computeCanAddInverse(hasExplicitInverse(nominal, ip),
                                               hasUnconditionalConformance(conf))
                deinit == deinitDiags(nominal, ip, canAdd)
                walk == IF deinit # << >>
                          THEN [visited |-> << >>, diags |-> << >>, result |-> FALSE]
                          ELSE StorageVisitor_visit(nominal, ip, canAdd, origin)
            IN [diags |-> contradiction \o deinit \o walk.diags,
                visited |-> walk.visited, stopped |-> walk.result,
                canAddInverse |-> canAdd, returnedAtClass |-> FALSE]

\* checkInvertibleConformanceCommon: the diagnostics in emission order, the
\* members visited, the value visit() returned, and the locals of interest.
checkInvertibleConformanceCommon(nominal, conf, ip, feature, origin) ==
  LET contradiction == contradictionDiags(nominal, conf, ip, feature)
  IN IF returnsAtClass(nominal)
       THEN [diags |-> contradiction, visited |-> << >>, stopped |-> FALSE,
             canAddInverse |-> FALSE, returnedAtClass |-> TRUE]
       ELSE LET canAdd == computeCanAddInverse(hasExplicitInverse(nominal, ip),
                                               hasUnconditionalConformance(conf))
                walk == StorageVisitor_visit(nominal, ip, canAdd, origin)
            IN [diags |-> contradiction \o deinitDiags(nominal, ip, canAdd) \o walk.diags,
                visited |-> walk.visited, stopped |-> walk.result,
                canAddInverse |-> canAdd, returnedAtClass |-> FALSE]

\* ------------------------------------------------------------ the machine

InitialNominal ==
  [kind |-> "Struct", members |-> << >>, hasDeinit |-> FALSE,
   inherited |-> [empty |-> TRUE, inverses |-> {}],
   hasMoveOnlyAttr |-> FALSE, hasNonEscapableAttr |-> FALSE]

Init ==
  /\ pc = "idle"
  /\ nominalDecl = InitialNominal
  /\ conformance = [isNormal |-> TRUE, conditionalRequirementsEmpty |-> TRUE]
  /\ IP = "Copyable"
  /\ MoveOnlyClasses = FALSE
  /\ diags = << >>
  /\ visited = << >>
  /\ canAddInverse = FALSE
  /\ returnedAtClass = FALSE

\* One invocation of the check for ip, on inputs drawn here.
Check(ip) ==
  /\ pc = "idle"
  /\ \E nominal \in NominalDecls, conf \in Conformances :
     \E feature \in FeatureValues(nominal) :
     \E origin \in OriginValues(
            checkInvertibleConformanceCommon(nominal, conf, ip, feature, "None").stopped) :
       LET r == checkInvertibleConformanceCommon(nominal, conf, ip, feature, origin)
       IN /\ nominalDecl' = nominal
          /\ conformance' = conf
          /\ IP' = ip
          /\ MoveOnlyClasses' = feature
          /\ diags' = r.diags
          /\ visited' = r.visited
          /\ canAddInverse' = r.canAddInverse
          /\ returnedAtClass' = r.returnedAtClass
  /\ pc' = "done"

checkEscapableConformance == Check("Escapable")

checkCopyableConformance == Check("Copyable")

Next ==
  \/ checkEscapableConformance
  \/ checkCopyableConformance

Spec == Init /\ [][Next]_vars

\* ------------------------------------------------- vocabulary of the claims

Done == pc = "done"

Members == nominalDecl.members

MemberIds == 1..Len(Members)

DiagIds == 1..Len(diags)

ContradictionId == "inverse_but_also_conforms"
DeinitId == "copyable_illegal_deinit"
StorageId == "inverse_type_member_in_conforming_type"
AddInverseId == "add_inverse"

ViolationIds == {ContradictionId, DeinitId, StorageId}

\* The positions in diags of the diagnostics of one id, and their number.
At(id) == { k \in DiagIds : diags[k].id = id }
Count(id) == Cardinality(At(id))

\* The type does not have the capability ip.
TypeLacks(type, ip) ==
  \/ ip = "Copyable" /\ type.isNoncopyable
  \/ ip = "Escapable" /\ ~type.isEscapable

\* The declaration explicitly suppresses ip: by an inverse in its inheritance
\* clause or by the legacy attribute of ip.
Suppresses(ip) ==
  \/ ip \in nominalDecl.inherited.inverses
  \/ ip = "Copyable" /\ nominalDecl.hasMoveOnlyAttr
  \/ ip = "Escapable" /\ nominalDecl.hasNonEscapableAttr

\* The claim under check is unconditional.
UnconditionalClaim ==
  conformance.isNormal /\ conformance.conditionalRequirementsEmpty

\* Member i carries storage: every stored property, and the enum elements
\* with a payload.
CarriesStorage(i) ==
  nominalDecl.kind = "Enum" => Members[i].hasAssociatedValues

\* Member i is disqualifying under ip: the storage rule fails on it.
Disqualifying(i, ip) ==
  /\ CarriesStorage(i)
  /\ ~Members[i].type.hasError
  /\ TypeLacks(Members[i].type, ip)

DisqualifyingIds == { i \in MemberIds : Disqualifying(i, IP) }

Least(S) == CHOOSE x \in S : \A y \in S : x <= y

VisitedIds == { visited[p] : p \in 1..Len(visited) }

\* The members carrying storage whose type is not in an error state.
ValidIds ==
  { i \in MemberIds : CarriesStorage(i) /\ ~Members[i].type.hasError }

\* Exactly one storage violation is emitted, and it is on member i.
OneStorageViolationOn(i) ==
  /\ Count(StorageId) = 1
  /\ \A k \in At(StorageId) : diags[k].member = i

\* ------------------------------------------------------------------ C1

\* C1 (short-circuit): for a struct with at least two members disqualifying
\* under the claimed capability, one invocation emits exactly one storage
\* violation, on the first disqualifying member in declaration order, and
\* the callback is invoked on no member after that one.
C1_ShortCircuit ==
  (Done /\ nominalDecl.kind = "Struct" /\ Cardinality(DisqualifyingIds) >= 2)
    => /\ OneStorageViolationOn(Least(DisqualifyingIds))
       /\ \A i \in VisitedIds : i <= Least(DisqualifyingIds)

C1_Witness ==
  /\ Done /\ nominalDecl.kind = "Struct"
  /\ Cardinality(DisqualifyingIds) >= 2
  /\ Count(StorageId) = 1
  /\ Len(visited) < Len(Members)

\* ------------------------------------------------------------------ C2

\* C2 (exemption): for a class, whatever its members, deinit, suppression,
\* conformance and feature flag, no storage violation, no destructor
\* violation and no add-inverse note is emitted.
C2_ClassExemption ==
  (Done /\ nominalDecl.kind = "Class")
    => \A k \in DiagIds : diags[k].id \notin {StorageId, DeinitId, AddInverseId}

C2_Witness ==
  /\ Done /\ nominalDecl.kind = "Class" /\ IP = "Copyable"
  /\ nominalDecl.hasDeinit
  /\ ~Suppresses(IP) /\ ~UnconditionalClaim
  /\ \E i \in MemberIds :
       ~Members[i].type.hasError /\ Members[i].type.isNoncopyable
  /\ diags = << >>

\* ------------------------------------------------------------------ C3

\* C3 as stated: every declaration (struct, enum or class) that explicitly
\* suppresses C and unconditionally claims C gets exactly one contradiction
\* violation.
C3_Original ==
  (Done /\ Suppresses(IP) /\ UnconditionalClaim)
    => Count(ContradictionId) = 1

\* C3 as amended: a struct or enum, or a class checked with the feature
\* MoveOnlyClasses on, that suppresses C and unconditionally claims C gets
\* exactly one contradiction violation, whatever its storage; a class checked
\* with the feature off gets none.
C3_ContradictionSymmetry ==
  (Done /\ Suppresses(IP) /\ UnconditionalClaim)
    => Count(ContradictionId) =
         (IF nominalDecl.kind # "Class" \/ MoveOnlyClasses THEN 1 ELSE 0)

C3_Witness ==
  /\ Done /\ Suppresses(IP) /\ UnconditionalClaim
  /\ nominalDecl.kind = "Class" /\ MoveOnlyClasses
  /\ Members # << >>
  /\ Count(ContradictionId) = 1

\* ------------------------------------------------------------------ C4

\* C4 (remediation gating): on a struct or enum, canAddInverse is true iff
\* the capability is not explicitly suppressed and the claim is not
\* unconditional; when it is false no add-inverse note is emitted; when it is
\* true every destructor or storage violation is directly followed by one.
C4_RemediationGating ==
  (Done /\ nominalDecl.kind \in {"Struct", "Enum"})
    => /\ canAddInverse <=> (~Suppresses(IP) /\ ~UnconditionalClaim)
       /\ ~canAddInverse => Count(AddInverseId) = 0
       /\ canAddInverse =>
            \A k \in At(DeinitId) \cup At(StorageId) :
              k < Len(diags) /\ diags[k + 1].id = AddInverseId

C4_Witness ==
  /\ Done /\ nominalDecl.kind \in {"Struct", "Enum"}
  /\ canAddInverse
  /\ Count(DeinitId) = 1 /\ Count(StorageId) = 1
  /\ Count(AddInverseId) = 2

\* ------------------------------------------------------------------ C5

\* The first stored field whose type is not in an error state exists and
\* its type is non-copyable.
FirstValidFieldIsNoncopyable ==
  /\ ValidIds # {}
  /\ Members[Least(ValidIds)].type.isNoncopyable

\* The add-inverse note at position k suggests the inverse of ip: ": ~ip"
\* inserted at the opening brace when the struct has no inheritance clause,
\* ", ~ip" inserted after the clause otherwise.
SuggestsInverseAt(k, ip) ==
  /\ k \in DiagIds
  /\ diags[k].id = AddInverseId
  /\ diags[k].fixIt =
       (IF nominalDecl.inherited.empty
          THEN [how |-> "fixItInsert", loc |-> "getBraces().Start",
                text |-> ": ~" \o ip]
          ELSE [how |-> "fixItInsertAfter", loc |-> "getInherited().getEndLoc()",
                text |-> ", ~" \o ip])

\* C5 as stated: for a struct not suppressing Copyable whose first non-error
\* stored field is non-copyable, an unconditional Copyable claim gets exactly
\* one storage violation, on that field, and the remediation note (inserting
\* ": ~Copyable" when there is no inheritance clause) is offered.
C5_Original ==
  (Done /\ nominalDecl.kind = "Struct" /\ IP = "Copyable"
        /\ ~Suppresses("Copyable") /\ UnconditionalClaim
        /\ FirstValidFieldIsNoncopyable)
    => /\ OneStorageViolationOn(Least(ValidIds))
       /\ \E k \in At(StorageId) : SuggestsInverseAt(k + 1, "Copyable")

\* C5 as amended: for such a struct the Copyable claim gets exactly one
\* storage violation, on that field; when the claim is unconditional no
\* remediation note is offered (canAddInverse is false), and when it is not
\* unconditional the violation is directly followed by the note, which
\* inserts ": ~Copyable" when the struct has no inheritance clause.
C5_ScenarioA ==
  (Done /\ nominalDecl.kind = "Struct" /\ IP = "Copyable"
        /\ ~Suppresses("Copyable") /\ FirstValidFieldIsNoncopyable)
    => /\ OneStorageViolationOn(Least(ValidIds))
       /\ UnconditionalClaim => Count(AddInverseId) = 0
       /\ ~UnconditionalClaim =>
            \A k \in At(StorageId) : SuggestsInverseAt(k + 1, "Copyable")

C5_Witness ==
  /\ Done /\ nominalDecl.kind = "Struct" /\ IP = "Copyable"
  /\ ~Suppresses("Copyable") /\ UnconditionalClaim
  /\ FirstValidFieldIsNoncopyable
  /\ Least(ValidIds) > 1
  /\ Count(StorageId) = 1 /\ Count(AddInverseId) = 0

\* ------------------------------------------------------------------ C6

\* The storage rule failed on member i: a storage violation is on it.
FailedOn(i) == \E k \in At(StorageId) : diags[k].member = i

\* C6 as stated: a non-error member the rule is applied to fails, under a
\* Copyable claim iff its type is non-copyable, and under an Escapable claim
\* iff its type is escapable.
C6_Original ==
  (Done /\ nominalDecl.kind \in {"Struct", "Enum"})
    => \A i \in VisitedIds :
         ~Members[i].type.hasError =>
           (FailedOn(i) <=>
              \/ IP = "Copyable" /\ Members[i].type.isNoncopyable
              \/ IP = "Escapable" /\ Members[i].type.isEscapable)

\* C6 as amended: a non-error member the rule is applied to fails, under a
\* Copyable claim iff its type is non-copyable, and under an Escapable claim
\* iff its type is not escapable.
C6_StoragePolarity ==
  (Done /\ nominalDecl.kind \in {"Struct", "Enum"})
    => \A i \in VisitedIds :
         ~Members[i].type.hasError =>
           (FailedOn(i) <=>
              \/ IP = "Copyable" /\ Members[i].type.isNoncopyable
              \/ IP = "Escapable" /\ ~Members[i].type.isEscapable)

C6_Witness ==
  /\ Done /\ nominalDecl.kind \in {"Struct", "Enum"} /\ IP = "Escapable"
  /\ Len(visited) = 2
  /\ Members[visited[1]].type = [hasError |-> FALSE, isNoncopyable |-> TRUE,
                                 isEscapable |-> TRUE]
  /\ ~Members[visited[2]].type.hasError /\ ~Members[visited[2]].type.isEscapable
  /\ ~FailedOn(visited[1]) /\ FailedOn(visited[2])

\* ------------------------------------------------------------------ C7

\* The diagnostics that are violations (not notes), in emission order.
Violations == SelectSeq(diags, LAMBDA d : d.id \in ViolationIds)

\* Every member's type has the capability ip.
AllStorageConforms(ip) ==
  \A i \in MemberIds : ~TypeLacks(Members[i].type, ip)

\* C7 (destructor independence): a struct with a deinit, with storage all
\* conforming to the claimed capability and without contradiction, gets from
\* the Copyable check exactly one violation, the destructor violation, and
\* from the Escapable check no destructor violation.
C7_DestructorIndependence ==
  (Done /\ nominalDecl.kind = "Struct" /\ nominalDecl.hasDeinit
        /\ AllStorageConforms(IP) /\ ~(Suppresses(IP) /\ UnconditionalClaim))
    => /\ IP = "Copyable" =>
            Len(Violations) = 1 /\ Violations[1].id = DeinitId
       /\ IP = "Escapable" => Count(DeinitId) = 0

C7_Witness ==
  /\ Done /\ nominalDecl.kind = "Struct" /\ nominalDecl.hasDeinit
  /\ Members # << >> /\ AllStorageConforms(IP)
  /\ ~(Suppresses(IP) /\ UnconditionalClaim)
  /\ IP = "Copyable"
  /\ Len(Violations) = 1 /\ Violations[1].id = DeinitId

\* ------------------------------------------------------------------ C8

\* The rules in the order in which they run.
RuleRank(id) ==
  CASE id = ContradictionId -> 1
    [] id = DeinitId -> 2
    [] id = StorageId -> 3

\* The violations are emitted in the order contradiction, destructor,
\* storage.
ViolationsInRuleOrder ==
  \A a, b \in 1..Len(Violations) :
    a < b => RuleRank(Violations[a].id) <= RuleRank(Violations[b].id)

\* Both the destructor violation and a storage violation are emitted, the
\* destructor violation first.
DeinitThenStorage ==
  /\ Count(DeinitId) = 1 /\ Count(StorageId) = 1
  /\ \A d \in At(DeinitId), m \in At(StorageId) : d < m

\* C8 as stated: on a struct or enum the violations come in the order
\* contradiction, destructor, storage, and a struct with a deinit and a
\* non-copyable member claiming Copyable gets both the destructor violation
\* and a storage violation, the destructor violation first.
C8_Original ==
  (Done /\ nominalDecl.kind \in {"Struct", "Enum"})
    => /\ ViolationsInRuleOrder
       /\ (nominalDecl.kind = "Struct" /\ IP = "Copyable" /\ nominalDecl.hasDeinit
             /\ \E i \in MemberIds : Members[i].type.isNoncopyable)
            => DeinitThenStorage

\* C8 as amended: the same, for a struct with a deinit and a non-copyable
\* member whose type is not in an error state.
C8_RuleOrder ==
  (Done /\ nominalDecl.kind \in {"Struct", "Enum"})
    => /\ ViolationsInRuleOrder
       /\ (nominalDecl.kind = "Struct" /\ IP = "Copyable" /\ nominalDecl.hasDeinit
             /\ \E i \in MemberIds :
                  ~Members[i].type.hasError /\ Members[i].type.isNoncopyable)
            => DeinitThenStorage

C8_Witness ==
  /\ Done /\ nominalDecl.kind = "Struct" /\ IP = "Copyable"
  /\ nominalDecl.hasDeinit
  /\ Suppresses(IP) /\ UnconditionalClaim
  /\ Len(Violations) = 3
  /\ Violations[1].id = ContradictionId
  /\ Violations[2].id = DeinitId
  /\ Violations[3].id = StorageId

\* ------------------------------------------------------------------ C9

\* C9 (error-member skipping): on a struct or enum, no diagnostic is emitted
\* for a member whose type is in an error state; such a member does not end
\* the walk (it is the last one visited only when no member carrying storage
\* follows it); the storage violation is on the first non-error
\* disqualifying member, and there is none when no such member exists, in
\* particular when every member is error-typed.
C9_ErrorMemberSkipping ==
  (Done /\ nominalDecl.kind \in {"Struct", "Enum"})
    => /\ \A k \in DiagIds :
            diags[k].member # 0 => ~Members[diags[k].member].type.hasError
       /\ \A p \in 1..Len(visited) :
            (Members[visited[p]].type.hasError /\ p = Len(visited))
              => \A j \in MemberIds : j > visited[p] => ~CarriesStorage(j)
       /\ DisqualifyingIds # {} => OneStorageViolationOn(Least(DisqualifyingIds))
       /\ DisqualifyingIds = {} => Count(StorageId) = 0
       /\ (\A i \in MemberIds : Members[i].type.hasError) => Count(StorageId) = 0

C9_Witness ==
  /\ Done /\ nominalDecl.kind \in {"Struct", "Enum"}
  /\ Len(Members) >= 2
  /\ Members[1].type.hasError /\ TypeLacks(Members[1].type, IP)
  /\ Disqualifying(2, IP)
  /\ visited = << 1, 2 >>
  /\ OneStorageViolationOn(2)

\* ----------------------------------------------------------------- C10

\* The enum elements that have a payload.
PayloadIds == { i \in MemberIds : Members[i].hasAssociatedValues }

\* The callback is invoked in declaration order and only on elements that
\* have a payload.
VisitsPayloadsInOrder ==
  /\ \A p, q \in 1..Len(visited) : p < q => visited[p] < visited[q]
  /\ VisitedIds \subseteq PayloadIds

\* Exactly one storage violation is emitted, on element i, with isEnum set.
OnePayloadViolationOn(i) ==
  /\ OneStorageViolationOn(i)
  /\ \A k \in At(StorageId) : diags[k].isEnum

\* A storage violation on a struct field never has isEnum set.
FieldsNotTaggedAsPayload ==
  nominalDecl.kind = "Struct" => \A k \in At(StorageId) : ~diags[k].isEnum

\* C10 as stated: for an enum the callback visits the payloads in
\* declaration order and no element without a payload; an enum claiming
\* Escapable whose first payload-carrying element has a non-escapable payload
\* gets exactly one storage violation, on that element, tagged isEnum; a
\* violation on a struct field is never tagged isEnum.
C10_Original ==
  Done
    => /\ nominalDecl.kind = "Enum" => VisitsPayloadsInOrder
       /\ (nominalDecl.kind = "Enum" /\ IP = "Escapable" /\ PayloadIds # {}
             /\ ~Members[Least(PayloadIds)].type.isEscapable)
            => OnePayloadViolationOn(Least(PayloadIds))
       /\ FieldsNotTaggedAsPayload

\* C10 as amended: the same, with the violation on the first payload-carrying
\* element whose payload type is not in an error state, when that payload is
\* non-escapable.
C10_EnumTraversal ==
  Done
    => /\ nominalDecl.kind = "Enum" => VisitsPayloadsInOrder
       /\ (nominalDecl.kind = "Enum" /\ IP = "Escapable" /\ ValidIds # {}
             /\ ~Members[Least(ValidIds)].type.isEscapable)
            => OnePayloadViolationOn(Least(ValidIds))
       /\ FieldsNotTaggedAsPayload

C10_Witness ==
  /\ Done /\ nominalDecl.kind = "Enum" /\ IP = "Escapable"
  /\ Len(Members) >= 2
  /\ ~Members[1].hasAssociatedValues
  /\ ValidIds # {} /\ Least(ValidIds) = 2
  /\ ~Members[2].type.isEscapable
  /\ visited = << 2 >>
  /\ OnePayloadViolationOn(2)

====
